---- MODULE Spec2Model ----
(***************************************************************************)
(* A model of server.js: the express handlers of the Telegram automation   *)
(* server, the session registry (the Map `sessions`), the global           *)
(* commenting flag and the background commenter loops.                      *)
(*                                                                         *)
(* Every handler is an async function: it runs without interruption from   *)
(* one `await` to the next, and other handlers run in between. One action  *)
(* of the model is one such run: from the arrival of a request, or from    *)
(* the completion of the awaited protocol call, to the next await or to    *)
(* the response. The protocol client (the telegram package) is external:   *)
(* each of its calls completes with an outcome chosen nondeterministically *)
(* or never completes (no fairness is assumed in Spec).                     *)
(***************************************************************************)
EXTENDS Naturals, Integers, Sequences, FiniteSets, TLC

(***************************************************************************)
(* Bounds of the model.                                                    *)
(***************************************************************************)
\* The number of HTTP requests in flight at one time (request slots
\* 1..MaxReq; a slot is free again once its request has been answered).
MaxReq == 2

\* The number of TelegramClient objects alive at one time.
MaxClients == 2

\* The number of background commenter loops alive at one time.
MaxLoops == 2

\* The longest keyword list of a search and the longest chat list of one
\* search result.
MaxKeywords == 2

MaxChats == 2

\* The largest subscriber count and subscriber bound.
MaxSubs == 2

\* The longest channelLinks list of a subscribe or comment request.
MaxLinks == 3

Reqs == 1..MaxReq

Clients == 1..MaxClients

Loops == 1..MaxLoops

\* Request bodies: phone numbers and application ids, as the strings the
\* template literal of sessionKey concatenates.
Phones == {"79001", "79002"}

ApiIds == {"11"}

\* No client: what sessions.get answers for an absent key (undefined).
NoClient == 0

\* The sequences over S of length at most n.
SeqsUpTo(S, n) == UNION {[1..k -> S] : k \in 0..n}

Min(S) == CHOOSE x \in S : \A y \in S : x <= y

(***************************************************************************)
(* State.                                                                  *)
(***************************************************************************)
VARIABLES
    sessions,          \* the Map `sessions`: a sequence of [key, client] in insertion order
    clients,           \* the TelegramClient objects
    reqs,              \* the HTTP requests in flight: body, position in the handler
    srch,              \* locals of the /api/search-channels handlers in flight, by request
    subs,              \* locals of the /api/subscribe handlers in flight, by request
    last,              \* the request answered since the last arrival, its locals and response
    commentingActive,  \* the global flag of line 317
    loops,             \* the background commenter loops
    blocked,           \* the event loop is held by a synchronous loop that never yields
    shutdown           \* the SIGTERM handler: its position and its iterator over sessions

vars == <<sessions, clients, reqs, srch, subs, last, commentingActive, loops, blocked, shutdown>>

\* The variables of the request handlers.
handlers == <<reqs, srch, subs, last>>

(***************************************************************************)
(* The session registry: a JavaScript Map keeps its entries in insertion   *)
(* order; set on a present key replaces the value in place.                *)
(***************************************************************************)
\* `${phoneNumber}_${apiId}`
sessionKey(phoneNumber, apiId) == phoneNumber \o "_" \o apiId

HasKey(m, key) == \E i \in 1..Len(m) : m[i].key = key

\* sessions.get(key)
MapGet(m, key) ==
    IF HasKey(m, key)
    THEN (CHOOSE e \in {m[i] : i \in 1..Len(m)} : e.key = key).client
    ELSE NoClient

\* sessions.set(key, client)
MapSet(m, key, client) ==
    IF HasKey(m, key)
    THEN [i \in 1..Len(m) |-> IF m[i].key = key THEN [key |-> key, client |-> client] ELSE m[i]]
    ELSE Append(m, [key |-> key, client |-> client])

\* A slip at line 408: the entry is left in the Map.
MapDeleteNothing(m, key) == m

\* sessions.delete(key)
MapDelete(m, key) == SelectSeq(m, LAMBDA e : e.key # key)

\* The position of key in the Map (0 when absent).
MapIndex(m, key) ==
    IF HasKey(m, key) THEN CHOOSE i \in 1..Len(m) : m[i].key = key ELSE 0

Registered(c) == \E i \in 1..Len(sessions) : sessions[i].client = c

(***************************************************************************)
(* Protocol clients. conn: "none" (no such object), "new" (constructed,    *)
(* connect in flight), "up" (client.connected), "down". auth is the        *)
(* upstream's view of the login: what the handshake has reached on this    *)
(* connection.                                                             *)
(***************************************************************************)
NoClientRec == [key |-> "", conn |-> "none", auth |-> "none"]

\* client.connected
Connected(c) == clients[c].conn = "up"

(***************************************************************************)
(* Requests.                                                               *)
(***************************************************************************)
NoResp == [status |-> 0, success |-> FALSE, tag |-> "none"]

\* creds is what the body carries of code and password: "none", "code" or
\* "code+password" (a password without a code is read by no branch).
\* issued is the set of protocol calls the handler has made; found and
\* foundConn are the auth and conn of the client the registry lookup
\* returned, as they were then ("none": no client); signIn is the outcome of
\* the signInUser call the handler has made ("none": no such call); onDown,
\* that the handler has made a call other than connect on its client while
\* the client was disconnected.
NoReq == [kind |-> "none", key |-> "", creds |-> "none",
          pc |-> "idle", client |-> NoClient, resp |-> NoResp,
          issued |-> {}, found |-> "none", foundConn |-> "none", signIn |-> "none",
          onDown |-> FALSE]

Resp(status, success, tag) == [status |-> status, success |-> success, tag |-> tag]

\* Locals of a search: the keywords yet to search (the current one first),
\* the chats of the current result yet to process (the current one first),
\* the bounds, seenIds, allChannels. chatsFound and fetched record what the
\* searches returned (the ids of the broadcast channels) and what the metadata
\* fetches answered; dedups, that a channel was passed over as already seen.
\* asked is the length of the keyword list of the body and searches the number
\* of contacts.Search calls made; calls is the bag of the ids GetFullChannel
\* has been called for (2 stands for more); failed holds "search" and "fetch"
\* once such a call has thrown.
NoSearch == [keywords |-> <<>>, chats |-> <<>>, min |-> 0, max |-> 0,
             seenIds |-> {}, allChannels |-> <<>>, chatsFound |-> {}, fetched |-> {},
             dedups |-> FALSE, asked |-> 0, searches |-> 0, calls |-> <<>>,
             failed |-> {}]

\* Locals of a subscribe: channelLinks, the index of the current link, results;
\* joined and failed are the counts of the response. failures counts the
\* getEntity and JoinChannel calls that have failed; unpaced, the JoinChannel
\* calls made since the last delay of line 289 ended (2: two or more).
NoSub == [links |-> <<>>, idx |-> 0, results |-> <<>>, joined |-> 0, failed |-> 0,
          failures |-> 0, unpaced |-> 0]

NoLast == [req |-> NoReq, search |-> NoSearch, sub |-> NoSub]

InFlight(r) == reqs[r].kind # "none"

\* A client object is reachable: the registry, a handler in flight, a running
\* loop or the shutdown handler holds it, or its connection is open.
Referenced(c) ==
    \/ Registered(c)
    \/ clients[c].conn \in {"new", "up"}
    \/ \E r \in Reqs : InFlight(r) /\ reqs[r].client = c
    \/ \E l \in Loops : loops[l].pc \notin {"none", "exited"} /\ loops[l].client = c
    \/ shutdown.pc # "idle" /\ c \in shutdown.atStart \cup shutdown.attempted

FreeClients == {c \in Clients : ~Referenced(c)}

\* The process serves requests: it has not exited and no synchronous loop
\* holds the event loop.
Serving == shutdown.pc # "exited" /\ ~blocked

\* Request r arrives, in the first free slot.
Arrives(r) ==
    /\ Serving
    /\ ~InFlight(r)
    /\ \A q \in Reqs : q < r => InFlight(q)

\* Request r is at the await named pc, and the awaited call completes.
Resumes(r, kind, pc) ==
    /\ Serving
    /\ reqs[r].kind = kind
    /\ reqs[r].pc = pc

\* The handler of request r has run to its next await, or to its response
\* (pc = "done"), with q its request record, s and u its locals: an answered
\* request leaves its slot and is kept as the last one answered, until the
\* next request arrives.
Handler(r, q, s, u) ==
    IF q.pc = "done"
    THEN /\ last' = [req |-> [q EXCEPT !.client = NoClient], search |-> s, sub |-> u]
         /\ reqs' = [reqs EXCEPT ![r] = NoReq]
         /\ srch' = [srch EXCEPT ![r] = NoSearch]
         /\ subs' = [subs EXCEPT ![r] = NoSub]
    ELSE /\ last' = IF InFlight(r) THEN last ELSE NoLast
         /\ reqs' = [reqs EXCEPT ![r] = q]
         /\ srch' = [srch EXCEPT ![r] = s]
         /\ subs' = [subs EXCEPT ![r] = u]

\* The client has been disconnected.
Down(client) == client # NoClient /\ clients[client].conn = "down"

\* The handler answers.
Answered(req, resp) == [req EXCEPT !.pc = "done", !.resp = resp]

\* The handler makes a protocol call and awaits it.
Awaits(req, call) ==
    [req EXCEPT !.pc = call, !.issued = @ \cup {call},
                !.onDown = @ \/ (call \notin {"connect", "reconnect"} /\ Down(req.client))]

\* The test `!client || !client.connected` of lines 151, 255 and 327.
NotConnected(client) == client = NoClient \/ ~Connected(client)

FoundAuth(client) == IF client = NoClient THEN "none" ELSE clients[client].auth

FoundConn(client) == IF client = NoClient THEN "none" ELSE clients[client].conn

\* The request record after lines 45-46, 148-149, 252-253, 324-325 and
\* 403-404: the key and the client found under it.
Lookup(kind, key) ==
    [NoReq EXCEPT !.kind = kind, !.key = key, !.client = MapGet(sessions, key),
                  !.found = FoundAuth(MapGet(sessions, key)),
                  !.foundConn = FoundConn(MapGet(sessions, key))]

(***************************************************************************)
(* POST /api/connect                                                       *)
(***************************************************************************)
\* What signInUser can end with: success, or an error whose message holds
\* PHONE_CODE_INVALID, SESSION_PASSWORD_NEEDED or neither.
SignInOutcomes == {"ok", "PHONE_CODE_INVALID", "SESSION_PASSWORD_NEEDED", "OTHER"}

\* A slip at line 48: the result of the lookup is ignored and every connect
\* starts a new session.
IsNewSessionAlways(client) == TRUE

\* The test of line 48 on the result of the lookup of line 46.
IsNewSession(client) == client = NoClient

\* The test `!code` of line 63.
NoCode(creds) == creds = "none"

\* Lines 35-56 and 116-126: validation, the registry lookup, and either the
\* construction of a client and the start of its connect, or the branch for
\* a client that already exists.
ConnectRequest(r, phones) ==
    /\ Arrives(r)
    /\ \E phone \in phones, api \in ApiIds, valid \in BOOLEAN,
          creds \in {"none", "code", "code+password"} :
        LET key == sessionKey(phone, api)
            req == [Lookup("connect", key) EXCEPT !.creds = creds]
        IN  IF ~valid
            THEN /\ Handler(r, Answered([NoReq EXCEPT !.kind = "connect"],
                                        Resp(400, FALSE, "missingFields")), NoSearch, NoSub)
                 /\ UNCHANGED clients
            ELSE IF IsNewSession(req.client)
            THEN /\ FreeClients # {}
                 /\ LET c == Min(FreeClients)
                    IN  /\ clients' = [clients EXCEPT ![c] =
                                [key |-> key, conn |-> "new", auth |-> "none"]]
                        /\ Handler(r, Awaits([req EXCEPT !.client = c], "connect"),
                                   NoSearch, NoSub)
            ELSE IF ~Connected(req.client)
            THEN /\ Handler(r, Awaits(req, "reconnect"), NoSearch, NoSub)
                 /\ UNCHANGED clients
            ELSE /\ Handler(r, Answered(req, Resp(200, TRUE, "session")), NoSearch, NoSub)
                 /\ UNCHANGED clients
    /\ UNCHANGED <<sessions, commentingActive, loops, blocked, shutdown>>

\* Lines 56-91: client.connect() completes. It throws, or resolves with the
\* client connected or not; a connected client goes on to sendCode (no code
\* in the body) or to signInUser.
ConnectResolved(r) ==
    /\ Resumes(r, "connect", "connect")
    /\ \E outcome \in {"up", "down", "throw"} :
        LET c == reqs[r].client
        IN  IF outcome = "up"
            THEN /\ clients' = [clients EXCEPT ![c].conn = "up"]
                 /\ Handler(r, Awaits(reqs[r], IF NoCode(reqs[r].creds)
                                               THEN "sendCode" ELSE "signIn"),
                            NoSearch, NoSub)
            ELSE /\ clients' = [clients EXCEPT ![c].conn = "down"]
                 /\ Handler(r, Answered(reqs[r], Resp(500, FALSE, "error")), NoSearch, NoSub)
    /\ UNCHANGED <<sessions, commentingActive, loops, blocked, shutdown>>

\* Lines 65-75: sendCode completes; on success the client is registered and
\* the caller is asked for the code.
SendCodeResolved(r) ==
    /\ Resumes(r, "connect", "sendCode")
    /\ \E ok \in BOOLEAN :
        LET c == reqs[r].client
        IN  IF ok
            THEN /\ clients' = [clients EXCEPT ![c].auth = "AwaitingCode"]
                 /\ sessions' = MapSet(sessions, reqs[r].key, c)
                 /\ Handler(r, Answered(reqs[r], Resp(200, TRUE, "needsCode")),
                            NoSearch, NoSub)
            ELSE /\ Handler(r, Answered(reqs[r], Resp(500, FALSE, "error")), NoSearch, NoSub)
                 /\ UNCHANGED <<clients, sessions>>
    /\ UNCHANGED <<commentingActive, loops, blocked, shutdown>>

\* A slip at lines 92-104: no inner catch, every failure goes to the catch of
\* line 128.
SignInFailureUnsorted(outcome) == Resp(500, FALSE, "error")

\* Lines 92-104, 128-134: the response to a signInUser call that has thrown.
SignInFailure(outcome) ==
    CASE outcome = "PHONE_CODE_INVALID" -> Resp(400, FALSE, "invalidCode")
      [] outcome = "SESSION_PASSWORD_NEEDED" -> Resp(200, TRUE, "needsPassword")
      [] OTHER -> Resp(500, FALSE, "error")

\* Lines 80-115: signInUser completes.
SignInResolved(r) ==
    /\ Resumes(r, "connect", "signIn")
    /\ \E outcome \in SignInOutcomes :
        LET c == reqs[r].client
            q == [reqs[r] EXCEPT !.signIn = outcome]
        IN  IF outcome = "ok"
            THEN /\ clients' = [clients EXCEPT ![c].auth = "Authenticated"]
                 /\ sessions' = MapSet(sessions, q.key, c)
                 /\ Handler(r, Answered(q, Resp(200, TRUE, "session")), NoSearch, NoSub)
            ELSE /\ clients' = [clients EXCEPT ![c].auth =
                        IF outcome = "SESSION_PASSWORD_NEEDED" THEN "AwaitingPassword" ELSE @]
                 /\ Handler(r, Answered(q, SignInFailure(outcome)), NoSearch, NoSub)
                 /\ UNCHANGED sessions
    /\ UNCHANGED <<commentingActive, loops, blocked, shutdown>>

\* Lines 118-126: the connect of a registered, disconnected client completes.
\* Its result is not tested: the handler answers success unless it throws.
ReconnectResolved(r) ==
    /\ Resumes(r, "connect", "reconnect")
    /\ \E outcome \in {"up", "down", "throw"} :
        LET c == reqs[r].client
        IN  /\ clients' = [clients EXCEPT ![c].conn = IF outcome = "up" THEN "up" ELSE @]
            /\ Handler(r, Answered(reqs[r], IF outcome = "throw"
                                            THEN Resp(500, FALSE, "error")
                                            ELSE Resp(200, TRUE, "session")),
                       NoSearch, NoSub)
    /\ UNCHANGED <<sessions, commentingActive, loops, blocked, shutdown>>

(***************************************************************************)
(* POST /api/disconnect                                                    *)
(***************************************************************************)
\* Lines 400-414: the lookup; a registered client is disconnected, an absent
\* one answers success at once.
DisconnectRequest(r, phones) ==
    /\ Arrives(r)
    /\ \E phone \in phones, api \in ApiIds :
        LET req == Lookup("disconnect", sessionKey(phone, api))
        IN  IF req.client # NoClient
            THEN Handler(r, Awaits(req, "disconnect"), NoSearch, NoSub)
            ELSE Handler(r, Answered(req, Resp(200, TRUE, "disconnected")), NoSearch, NoSub)
    /\ UNCHANGED <<sessions, clients, commentingActive, loops, blocked, shutdown>>

\* Lines 407-419: client.disconnect() completes; the key is deleted from the
\* registry, whatever it holds by now. The iterator of a shutdown in progress
\* follows the deletion of an entry it has passed.
DisconnectResolved(r) ==
    /\ Resumes(r, "disconnect", "disconnect")
    /\ \E ok \in BOOLEAN :
        IF ok
        THEN /\ clients' = [clients EXCEPT ![reqs[r].client].conn = "down"]
             /\ sessions' = MapDelete(sessions, reqs[r].key)
             /\ shutdown' = [shutdown EXCEPT !.idx =
                    IF MapIndex(sessions, reqs[r].key) \in 1..@ THEN @ - 1 ELSE @]
             /\ Handler(r, Answered(reqs[r], Resp(200, TRUE, "disconnected")),
                        NoSearch, NoSub)
        ELSE /\ Handler(r, Answered(reqs[r], Resp(500, FALSE, "error")), NoSearch, NoSub)
             /\ UNCHANGED <<clients, sessions, shutdown>>
    /\ UNCHANGED <<commentingActive, loops, blocked>>

(***************************************************************************)
(* process.on('SIGTERM')                                                   *)
(***************************************************************************)
\* atStart holds the clients registered when SIGTERM arrived, attempted the
\* clients the handler has called disconnect on; failed, that one of these
\* calls has thrown.
NoShutdown == [pc |-> "idle", idx |-> 0, client |-> NoClient,
               atStart |-> {}, attempted |-> {}, failed |-> FALSE]

\* Lines 438-447 from entry idx of the Map on: the disconnect of the next
\* entry's client is started, or, past the last entry, the process exits.
ShutdownFrom(sd, idx) ==
    IF idx <= Len(sessions)
    THEN [sd EXCEPT !.pc = "disconnect", !.idx = idx, !.client = sessions[idx].client,
                    !.attempted = @ \cup {sessions[idx].client}]
    ELSE [sd EXCEPT !.pc = "exited", !.idx = 0, !.client = NoClient]

\* Lines 434-440: SIGTERM arrives.
Sigterm ==
    /\ Serving
    /\ shutdown.pc = "idle"
    /\ shutdown' = ShutdownFrom([shutdown EXCEPT !.atStart = {c \in Clients : Registered(c)}], 1)
    /\ UNCHANGED <<sessions, clients, handlers, commentingActive, loops, blocked>>

\* A slip at lines 439-445: no try around the disconnect, so that a failure
\* ends the iteration.
NextEntryUnlessFailed(ok, idx) == IF ok THEN idx + 1 ELSE Len(sessions) + 1

\* Lines 438-445: the entry the iteration goes on with after a disconnect
\* that has returned (ok) or thrown.
NextEntry(ok, idx) == idx + 1

\* Lines 440-447: one disconnect completes or fails (the failure is logged),
\* and the iteration goes on.
ShutdownResolved ==
    /\ Serving
    /\ shutdown.pc = "disconnect"
    /\ \E ok \in BOOLEAN :
        /\ clients' = [clients EXCEPT ![shutdown.client].conn = IF ok THEN "down" ELSE @]
        /\ shutdown' = ShutdownFrom([shutdown EXCEPT !.failed = @ \/ ~ok],
                                    NextEntry(ok, shutdown.idx))
    /\ UNCHANGED <<sessions, handlers, commentingActive, loops, blocked>>

(***************************************************************************)
(* Channel links. A link is a string; the model writes it as the sequence  *)
(* of its parts, so that the two replace calls of lines 265 and 342 have   *)
(* something to remove.                                                    *)
(***************************************************************************)
LinkPool == {<<"https://t.me/", "foo">>, <<"@", "bar">>}

\* String.prototype.replace(part, ''): the first occurrence is removed.
RemoveFirst(s, part) ==
    IF \E i \in 1..Len(s) : s[i] = part
    THEN LET i == Min({j \in 1..Len(s) : s[j] = part})
         IN  SubSeq(s, 1, i - 1) \o SubSeq(s, i + 1, Len(s))
    ELSE s

\* link.replace('https://t.me/', '').replace('@', '')
Username(link) == RemoveFirst(RemoveFirst(link, "https://t.me/"), "@")

(***************************************************************************)
(* POST /api/comment and the background loop                               *)
(***************************************************************************)
\* sendsInactive counts the sendMessage calls the loop has issued with the
\* flag false since the flag was last set (2 stands for more). stop records
\* the /api/stop-commenting requests processed while the loop runs: "pending"
\* from such a request to the loop's next test of the flag, "missed" once the
\* loop has gone on past that test. onDown records that the loop has made a
\* call on its client while the client was disconnected.
NoLoop == [pc |-> "none", client |-> NoClient, links |-> <<>>, idx |-> 0,
           sendsInactive |-> 0, stop |-> "none", onDown |-> FALSE]

Running(l) == loops[l].pc \notin {"none", "exited"}

FreeLoops == {l \in Loops : ~Running(l)}

\* The tests of the flag at lines 337 and 339.
KeepsGoing(active) == active

\* Lines 337-347 after the sleep of channel idx (0: at the launch): the next
\* channel of the pass, or the first one of a new pass, is taken while the
\* flag is set; with the flag clear the loop ends.
LoopAdvance(lp, active) ==
    IF KeepsGoing(active)
    THEN [lp EXCEPT !.pc = "getEntity",
                    !.idx = IF lp.idx < Len(lp.links) THEN lp.idx + 1 ELSE 1,
                    !.stop = IF @ = "pending" THEN "missed" ELSE @,
                    !.onDown = @ \/ Down(lp.client)]
    ELSE [NoLoop EXCEPT !.pc = "exited", !.sendsInactive = lp.sendsInactive]

\* A slip at line 333: the flag is set before the test of line 327.
FlagSetBeforeTest(passed, flag) == TRUE

\* Lines 327-333: the flag after a /api/comment request that has passed the
\* connected test or not.
FlagAfterComment(passed, flag) == IF passed THEN TRUE ELSE flag

\* Lines 320-378: the lookup and the connected test, the flag, the launch of
\* the loop, which runs to its first await, and the response. With an empty
\* channelLinks the loop of line 337 has no await: it never returns.
CommentRequest(r, phones, linkLists, loopSlots) ==
    /\ Arrives(r)
    /\ \E phone \in phones, api \in ApiIds, links \in linkLists :
        LET req == Lookup("comment", sessionKey(phone, api))
        IN  IF NotConnected(req.client)
            THEN /\ Handler(r, Answered(req, Resp(401, FALSE, "notConnected")),
                            NoSearch, NoSub)
                 /\ commentingActive' = FlagAfterComment(FALSE, commentingActive)
                 /\ UNCHANGED <<loops, blocked>>
            ELSE /\ FreeLoops \cap loopSlots # {}
                 /\ commentingActive' = FlagAfterComment(TRUE, commentingActive)
                 /\ LET l == Min(FreeLoops \cap loopSlots)
                        lp == [NoLoop EXCEPT !.client = req.client, !.links = links]
                        others == [k \in Loops |-> [loops[k] EXCEPT !.sendsInactive = 0]]
                    IN  IF links = <<>>
                        THEN /\ loops' = [others EXCEPT ![l] = [lp EXCEPT !.pc = "spinning"]]
                             /\ blocked' = TRUE
                             /\ Handler(r, [req EXCEPT !.pc = "launching"], NoSearch, NoSub)
                        ELSE /\ loops' = [others EXCEPT ![l] = LoopAdvance(lp, TRUE)]
                             /\ blocked' = blocked
                             /\ Handler(r, Answered([req EXCEPT !.issued = {"getEntity"}],
                                                    Resp(200, TRUE, "commentingStarted")),
                                        NoSearch, NoSub)
    /\ UNCHANGED <<sessions, clients, shutdown>>

\* Lines 347-350: getEntity completes; getMessages follows, or the error is
\* logged and the sleep of line 368 starts.
LoopEntityResolved(l) ==
    /\ Serving
    /\ loops[l].pc = "getEntity"
    /\ \E ok \in BOOLEAN :
        loops' = [loops EXCEPT ![l].pc = IF ok THEN "getMessages" ELSE "sleep",
                               ![l].onDown = @ \/ (ok /\ Down(loops[l].client))]
    /\ UNCHANGED <<sessions, clients, handlers, commentingActive, blocked, shutdown>>

\* Lines 350-359: getMessages completes: with a message the comment is sent;
\* with none, or on an error, the sleep starts.
LoopMessagesResolved(l) ==
    /\ Serving
    /\ loops[l].pc = "getMessages"
    /\ \E outcome \in {"messages", "empty", "throw"} :
        IF outcome = "messages"
        THEN loops' = [loops EXCEPT ![l].pc = "sendMessage",
                        ![l].onDown = @ \/ Down(loops[l].client),
                        ![l].sendsInactive =
                            IF commentingActive THEN @ ELSE IF @ < 2 THEN @ + 1 ELSE @]
        ELSE loops' = [loops EXCEPT ![l].pc = "sleep"]
    /\ UNCHANGED <<sessions, clients, handlers, commentingActive, blocked, shutdown>>

\* Lines 356-368: sendMessage completes or fails; the sleep starts.
LoopSendResolved(l) ==
    /\ Serving
    /\ loops[l].pc = "sendMessage"
    /\ loops' = [loops EXCEPT ![l].pc = "sleep"]
    /\ UNCHANGED <<sessions, clients, handlers, commentingActive, blocked, shutdown>>

\* Lines 368, 337-347: the sleep ends.
LoopSlept(l) ==
    /\ Serving
    /\ loops[l].pc = "sleep"
    /\ loops' = [loops EXCEPT ![l] = LoopAdvance(loops[l], commentingActive)]
    /\ UNCHANGED <<sessions, clients, handlers, commentingActive, blocked, shutdown>>

(***************************************************************************)
(* POST /api/stop-commenting                                               *)
(***************************************************************************)
\* Lines 389-397.
StopRequest(r) ==
    /\ Arrives(r)
    /\ commentingActive' = FALSE
    /\ loops' = [l \in Loops |-> IF Running(l) /\ loops[l].stop = "none"
                                 THEN [loops[l] EXCEPT !.stop = "pending"] ELSE loops[l]]
    /\ Handler(r, Answered([NoReq EXCEPT !.kind = "stop"],
                           Resp(200, TRUE, "commentingStopped")), NoSearch, NoSub)
    /\ UNCHANGED <<sessions, clients, blocked, shutdown>>

(***************************************************************************)
(* POST /api/search-channels                                               *)
(***************************************************************************)
Keywords == {"news", "tech"}

\* The chats the upstream knows: two broadcast channels, a megagroup and a
\* basic group.
ChatPool == {[id |-> 1, className |-> "Channel", megagroup |-> FALSE],
             [id |-> 2, className |-> "Channel", megagroup |-> FALSE],
             [id |-> 3, className |-> "Channel", megagroup |-> TRUE],
             [id |-> 4, className |-> "Chat", megagroup |-> FALSE]}

\* fullChat.participantsCount may be absent.
Undefined == -1

\* What GetFullChannel can answer: participantsCount, and flags absent, or
\* present with noComments set or not.
FullChats == [participantsCount : {Undefined} \cup (0..MaxSubs),
              flags : {"absent", "noComments", "comments"}]

\* participantsCount || 0
OrZero(x) == IF x = Undefined \/ x = 0 THEN 0 ELSE x

\* !flags || !flags.noComments
HasDiscussion(flags) == flags = "absent" \/ ~(flags = "noComments")

\* A slip at line 191: the upper bound is exclusive.
InBoundsExclusive(count, min, max) == count >= min /\ count < max

\* Lines 190-191.
InBounds(count, min, max) == count >= min /\ count <= max

\* Line 178: a broadcast channel whose id has not been recorded.
IsBroadcast(chat) == chat.className = "Channel" /\ ~chat.megagroup

\* A slip at line 178: the test of seenIds is missing.
ToFetchSeenToo(chat, seenIds) == IsBroadcast(chat)

ToFetch(chat, seenIds) == IsBroadcast(chat) /\ ToString(chat.id) \notin seenIds

\* Lines 176-178: the chats from the first one whose metadata is fetched.
RECURSIVE SkipChats(_, _)
SkipChats(chats, seenIds) ==
    IF chats = <<>> THEN <<>>
    ELSE IF ToFetch(Head(chats), seenIds) THEN chats
    ELSE SkipChats(Tail(chats), seenIds)

\* The bag of calls with one more call for id.
Called(calls, id) ==
    IF \E i \in 1..Len(calls) : calls[i].id = id
    THEN [i \in 1..Len(calls) |->
            IF calls[i].id = id THEN [id |-> id, n |-> 2] ELSE calls[i]]
    ELSE Append(calls, [id |-> id, n |-> 1])

\* Lines 176-223: the loop over the chats goes on with `chats`: the next
\* metadata fetch is started or, past the last chat, the delay between
\* keywords.
ChatsFrom(r, s, chats) ==
    LET rest == SkipChats(chats, s.seenIds)
        passed == SubSeq(chats, 1, Len(chats) - Len(rest))
        seen == \E i \in 1..Len(passed) :
                    IsBroadcast(passed[i]) /\ ToString(passed[i].id) \in s.seenIds
    IN  Handler(r, IF rest # <<>> THEN Awaits(reqs[r], "fetch")
                   ELSE [reqs[r] EXCEPT !.pc = "keywordDelay"],
                [s EXCEPT !.chats = rest, !.dedups = @ \/ seen,
                          !.calls = IF rest # <<>> THEN Called(@, Head(rest).id) ELSE @],
                NoSub)

\* Lines 161-166, 230-236: the loop over the keywords goes on with
\* `keywords`: the next search is started or, past the last keyword, the
\* response is sent.
KeywordsFrom(r, s, keywords) ==
    Handler(r, IF keywords # <<>> THEN Awaits(reqs[r], "search")
               ELSE Answered(reqs[r], Resp(200, TRUE, "channels")),
            [s EXCEPT !.keywords = keywords, !.chats = <<>>,
                      !.searches = IF keywords # <<>> THEN @ + 1 ELSE @], NoSub)

\* Lines 138-166: validation, the lookup and the connected test, the first
\* search.
SearchRequest(r, phones, keywordLists, bounds) ==
    /\ Arrives(r)
    /\ \E phone \in phones, api \in ApiIds, keywords \in keywordLists, bound \in bounds :
        LET req == Lookup("search", sessionKey(phone, api))
            s == [NoSearch EXCEPT !.keywords = keywords, !.min = bound[1], !.max = bound[2],
                                  !.asked = Len(keywords), !.searches = 1]
        IN  IF keywords = <<>>
            THEN Handler(r, Answered([NoReq EXCEPT !.kind = "search"],
                                     Resp(400, FALSE, "keywordsRequired")), NoSearch, NoSub)
            ELSE IF NotConnected(req.client)
            THEN Handler(r, Answered(req, Resp(401, FALSE, "notConnected")), NoSearch, NoSub)
            ELSE Handler(r, Awaits(req, "search"), s, NoSub)
    /\ UNCHANGED <<sessions, clients, commentingActive, loops, blocked, shutdown>>

\* A slip at lines 225-227: the catch is around the loop over the keywords,
\* so that a failed search ends the call.
SearchFailedEndsCall(keywords) == <<>>

\* Lines 225-227: the catch of one keyword: the keywords left are the later
\* ones.
SearchFailed(keywords) == Tail(keywords)

\* Lines 166-178, 225-227: contacts.Search completes: its chats are gone
\* through, or its error is logged and the next keyword taken.
SearchResolved(r, chatLists) ==
    /\ Resumes(r, "search", "search")
    /\ \/ \E chats \in chatLists :
            ChatsFrom(r, [srch[r] EXCEPT !.chatsFound =
                    @ \cup {chats[i].id : i \in {j \in 1..Len(chats) : IsBroadcast(chats[j])}}],
                    chats)
       \/ KeywordsFrom(r, [srch[r] EXCEPT !.failed = @ \cup {"search"}],
                       SearchFailed(srch[r].keywords))
    /\ UNCHANGED <<sessions, clients, commentingActive, loops, blocked, shutdown>>

\* Lines 187-211: the channel is accepted: its id is recorded and its entry
\* appended.
Accept(s, chat, count) ==
    [s EXCEPT !.seenIds = @ \cup {ToString(chat.id)},
              !.allChannels = Append(@, [id |-> ToString(chat.id), subscribers |-> count,
                                         keyword |-> Head(s.keywords)])]

\* Lines 187-196: the test of the metadata.
Accepts(full, min, max) ==
    InBounds(OrZero(full.participantsCount), min, max) /\ HasDiscussion(full.flags)

\* Lines 181-218: GetFullChannel completes: the channel is filtered, or the
\* error is logged; the delay of line 218 starts.
FetchResolved(r, fullChats) ==
    /\ Resumes(r, "search", "fetch")
    /\ LET s == srch[r]
           chat == Head(s.chats)
           q == [reqs[r] EXCEPT !.pc = "chatDelay"]
       IN  \/ \E full \in fullChats :
                LET count == OrZero(full.participantsCount)
                    t == [s EXCEPT !.fetched = @ \cup
                            {[id |-> chat.id, subscribers |-> count, flags |-> full.flags]}]
                IN  Handler(r, q, IF Accepts(full, s.min, s.max)
                                  THEN Accept(t, chat, count) ELSE t, NoSub)
           \/ Handler(r, q, [s EXCEPT !.failed = @ \cup {"fetch"}], NoSub)
    /\ UNCHANGED <<sessions, clients, commentingActive, loops, blocked, shutdown>>

\* Lines 218, 176-223: the delay after a channel ends.
ChatDelayDone(r) ==
    /\ Resumes(r, "search", "chatDelay")
    /\ ChatsFrom(r, srch[r], Tail(srch[r].chats))
    /\ UNCHANGED <<sessions, clients, commentingActive, loops, blocked, shutdown>>

\* Lines 223, 161-166, 230-236: the delay between keywords ends.
KeywordDelayDone(r) ==
    /\ Resumes(r, "search", "keywordDelay")
    /\ KeywordsFrom(r, srch[r], Tail(srch[r].keywords))
    /\ UNCHANGED <<sessions, clients, commentingActive, loops, blocked, shutdown>>

(***************************************************************************)
(* POST /api/subscribe                                                     *)
(***************************************************************************)
\* Lines 279-284 and 293-297: the entries pushed to results.
Joined(link) == [channel |-> link, username |-> Username(link), success |-> TRUE]

NotJoined(link) == [channel |-> link, success |-> FALSE]

\* results.filter(r => r.success).length and results.filter(r => !r.success).length
CountSuccess(results) == Len(SelectSeq(results, LAMBDA e : e.success))

CountFailure(results) == Len(SelectSeq(results, LAMBDA e : ~e.success))

\* Lines 263-270, 301-306: the loop over the links goes on at link idx: its
\* entity is asked for or, past the last link, the response is sent.
LinksFrom(r, u, idx) ==
    IF idx <= Len(u.links)
    THEN Handler(r, Awaits(reqs[r], "getEntity"), NoSearch, [u EXCEPT !.idx = idx])
    ELSE Handler(r, Answered(reqs[r], Resp(200, TRUE, "results")), NoSearch,
                 [u EXCEPT !.idx = idx, !.joined = CountSuccess(u.results),
                           !.failed = CountFailure(u.results)])

\* A slip at lines 291-299: the catch is around the loop, so that a failure
\* ends it.
LinkFailedEndsLoop(r, u) ==
    LinksFrom(r, [u EXCEPT !.results = Append(@, NotJoined(u.links[u.idx]))], Len(u.links) + 1)

\* Lines 291-299: the catch of one link: a failure entry, then the next link.
LinkFailed(r, u) ==
    LinksFrom(r, [u EXCEPT !.results = Append(@, NotJoined(u.links[u.idx]))], u.idx + 1)

\* Lines 248-270: the lookup and the connected test, the first link.
SubscribeRequest(r, phones, linkLists) ==
    /\ Arrives(r)
    /\ \E phone \in phones, api \in ApiIds, links \in linkLists :
        LET req == Lookup("subscribe", sessionKey(phone, api))
        IN  IF NotConnected(req.client)
            THEN Handler(r, Answered(req, Resp(401, FALSE, "notConnected")), NoSearch, NoSub)
            ELSE IF links = <<>>
            THEN Handler(r, Answered(req, Resp(200, TRUE, "results")), NoSearch, NoSub)
            ELSE Handler(r, Awaits(req, "getEntity"), NoSearch,
                         [NoSub EXCEPT !.links = links, !.idx = 1])
    /\ UNCHANGED <<sessions, clients, commentingActive, loops, blocked, shutdown>>

\* Lines 270-277, 291-299: getEntity completes: the join is started, or the
\* link has failed.
SubEntityResolved(r) ==
    /\ Resumes(r, "subscribe", "getEntity")
    /\ \E ok \in BOOLEAN :
        IF ok
        THEN Handler(r, Awaits(reqs[r], "join"), NoSearch,
                     [subs[r] EXCEPT !.unpaced = IF @ < 2 THEN @ + 1 ELSE @])
        ELSE LinkFailed(r, [subs[r] EXCEPT !.failures = @ + 1])
    /\ UNCHANGED <<sessions, clients, commentingActive, loops, blocked, shutdown>>

\* Lines 273-299: JoinChannel completes: a success entry and the delay of
\* line 289, or the link has failed.
SubJoinResolved(r) ==
    /\ Resumes(r, "subscribe", "join")
    /\ \E ok \in BOOLEAN :
        IF ok
        THEN Handler(r, [reqs[r] EXCEPT !.pc = "pace"], NoSearch,
                     [subs[r] EXCEPT !.results = Append(@, Joined(subs[r].links[subs[r].idx]))])
        ELSE LinkFailed(r, [subs[r] EXCEPT !.failures = @ + 1])
    /\ UNCHANGED <<sessions, clients, commentingActive, loops, blocked, shutdown>>

\* Lines 289, 263-270, 301-306: the delay after a join ends.
SubPaceDone(r) ==
    /\ Resumes(r, "subscribe", "pace")
    /\ LinksFrom(r, [subs[r] EXCEPT !.unpaced = 0], subs[r].idx + 1)
    /\ UNCHANGED <<sessions, clients, commentingActive, loops, blocked, shutdown>>

(***************************************************************************)
(* Specifications.                                                         *)
(***************************************************************************)
\* The state after the module has been loaded: the registry is empty.
Init ==
    /\ sessions = <<>>
    /\ clients = [c \in Clients |-> NoClientRec]
    /\ reqs = [r \in Reqs |-> NoReq]
    /\ srch = [r \in Reqs |-> NoSearch]
    /\ subs = [r \in Reqs |-> NoSub]
    /\ last = NoLast
    /\ commentingActive = FALSE
    /\ loops = [l \in Loops |-> NoLoop]
    /\ blocked = FALSE
    /\ shutdown = NoShutdown

Connect(r, phones) ==
    \/ ConnectRequest(r, phones)
    \/ ConnectResolved(r)
    \/ SendCodeResolved(r)
    \/ SignInResolved(r)
    \/ ReconnectResolved(r)

Disconnect(r, phones) ==
    \/ DisconnectRequest(r, phones)
    \/ DisconnectResolved(r)

Search(r, phones, keywordLists, bounds, chatLists, fullChats) ==
    \/ SearchRequest(r, phones, keywordLists, bounds)
    \/ SearchResolved(r, chatLists)
    \/ FetchResolved(r, fullChats)
    \/ ChatDelayDone(r)
    \/ KeywordDelayDone(r)

Subscribe(r, phones, linkLists) ==
    \/ SubscribeRequest(r, phones, linkLists)
    \/ SubEntityResolved(r)
    \/ SubJoinResolved(r)
    \/ SubPaceDone(r)

Loop(l) ==
    \/ LoopEntityResolved(l)
    \/ LoopMessagesResolved(l)
    \/ LoopSendResolved(l)
    \/ LoopSlept(l)

\* One session key.
OnePhone == {"79001"}

\* The whole server, serving one request and running one commenter loop at a
\* time, with request bodies and search results of at most one item; the
\* searches, subscriptions and comment requests are those of the first phone
\* number.
Next ==
    \/ \E r \in {1} :
        \/ Connect(r, Phones)
        \/ Disconnect(r, Phones)
        \/ Search(r, OnePhone, SeqsUpTo({"news"}, 1), {<<1, MaxSubs>>},
                  SeqsUpTo({c \in ChatPool : c.id = 1}, 1),
                  {f \in FullChats : f.participantsCount = MaxSubs /\ f.flags = "absent"})
        \/ Subscribe(r, OnePhone, SeqsUpTo({<<"@", "bar">>}, 1))
        \/ CommentRequest(r, OnePhone, SeqsUpTo({<<"@", "bar">>}, 1), {1})
        \/ StopRequest(r)
    \/ Loop(1)
    \/ Sigterm
    \/ ShutdownResolved

Spec == Init /\ [][Next]_vars

\* The authentication workflow, disconnection and shutdown.
NextAuth ==
    \/ \E r \in Reqs :
        \/ Connect(r, Phones)
        \/ Disconnect(r, Phones)
    \/ Sigterm
    \/ ShutdownResolved

SpecAuth == Init /\ [][NextAuth]_vars

\* The state after a login has succeeded for the first phone number: its
\* client is registered, connected and authenticated.
InitConnected ==
    /\ sessions = <<[key |-> sessionKey("79001", "11"), client |-> 1]>>
    /\ clients = [c \in Clients |->
            IF c = 1
            THEN [key |-> sessionKey("79001", "11"), conn |-> "up", auth |-> "Authenticated"]
            ELSE NoClientRec]
    /\ reqs = [r \in Reqs |-> NoReq]
    /\ srch = [r \in Reqs |-> NoSearch]
    /\ subs = [r \in Reqs |-> NoSub]
    /\ last = NoLast
    /\ commentingActive = FALSE
    /\ loops = [l \in Loops |-> NoLoop]
    /\ blocked = FALSE
    /\ shutdown = NoShutdown

\* The subscriber bounds of the search requests: any count, one count (so
\* that min-1 and max+1 are counts too), and min > max.
SearchBounds == {<<0, MaxSubs>>, <<1, 1>>, <<MaxSubs, 1>>}

\* Channel discovery on a logged-in server.
NextSearch ==
    \E r \in {1} :
        Search(r, Phones, SeqsUpTo(Keywords, MaxKeywords), SearchBounds,
               SeqsUpTo(ChatPool, MaxChats), FullChats)

SpecSearch == InitConnected /\ [][NextSearch]_vars

\* Subscription on a logged-in server.
NextSubscribe ==
    \E r \in {1} : Subscribe(r, Phones, SeqsUpTo(LinkPool, MaxLinks))

SpecSubscribe == InitConnected /\ [][NextSubscribe]_vars

\* The commenter on a logged-in server.
NextComment ==
    \/ \E r \in {1} :
        \/ CommentRequest(r, Phones, SeqsUpTo({<<"@", "bar">>}, MaxLinks), Loops)
        \/ StopRequest(r)
    \/ \E l \in Loops : Loop(l)

SpecComment == InitConnected /\ [][NextComment]_vars

\* One session on a logged-in server, with two requests in flight at a time:
\* the session is used by searches, subscriptions and the commenter while it
\* is disconnected.
NextSession ==
    \/ \E r \in Reqs :
        \/ Disconnect(r, OnePhone)
        \/ Search(r, OnePhone, SeqsUpTo({"news"}, 1), {<<1, MaxSubs>>},
                  SeqsUpTo({c \in ChatPool : c.id = 1}, 1),
                  {f \in FullChats : f.participantsCount = MaxSubs /\ f.flags = "absent"})
        \/ Subscribe(r, OnePhone, SeqsUpTo({<<"@", "bar">>}, 1))
        \/ CommentRequest(r, OnePhone, {<<<<"@", "bar">>>>}, {1})
        \/ StopRequest(r)
    \/ Loop(1)

SpecSession == InitConnected /\ [][NextSession]_vars

(***************************************************************************)
(* Properties.                                                             *)
(***************************************************************************)
\* The request answered last was a connect that found a client registered
\* under its key.
AnsweredConnectOn(auths) ==
    /\ last.req.kind = "connect"
    /\ last.req.resp.status # 0
    /\ last.req.found \in auths

\* C1: the login handshake progresses across successive /api/connect requests
\* on one key: a connect that carries a code for a key whose handle is in
\* AwaitingCode submits the code to sign-in, and never answers
\* {success, session} without it.
C1_HandshakeProgresses ==
    (AnsweredConnectOn({"AwaitingCode"}) /\ ~NoCode(last.req.creds))
        => "signIn" \in last.req.issued

\* C2: at most one client that has been created and not disconnected exists
\* per session key, in every interleaving of /api/connect requests (counted
\* here: the clients of the key whose connection is open).
C2_OneHandlePerKey ==
    \A p \in Phones, a \in ApiIds :
        Cardinality({c \in Clients : /\ clients[c].key = sessionKey(p, a)
                                     /\ clients[c].conn = "up"}) <= 1

\* C3: a search, subscribe or comment request whose key has no handle, or a
\* handle that has not reached Authenticated, is answered 401 and makes no
\* protocol call (an empty keyword list is answered 400 before the lookup).
C3_GateNeedsAuthenticated ==
    /\ \A r \in Reqs :
            reqs[r].kind \in {"search", "subscribe", "comment"}
                => reqs[r].found = "Authenticated"
    /\ (/\ last.req.kind \in {"search", "subscribe", "comment"}
        /\ last.req.resp.status # 400
        /\ last.req.found # "Authenticated")
            => (last.req.resp.status = 401 /\ last.req.issued = {})

\* C4: the number of commenter loops that have been launched and have not
\* exited is never greater than one (counted here: the loops that are at an
\* await of their channel list).
C4_OneCommenterLoop ==
    Cardinality({l \in Loops : Running(l) /\ loops[l].pc # "spinning"}) <= 1

\* C5: once /api/stop-commenting has been processed, a loop issues no
\* sendMessage call (none while the flag is false), also when the stop comes
\* while the loop awaits getEntity or getMessages.
C5_NoSendAfterStop == \A l \in Loops : loops[l].sendsInactive = 0

\* C6: every /api/comment request that passes the connected test is answered
\* at once, whatever its channel list, and the event loop stays free.
C6_CommentAnswersAtOnce ==
    /\ ~blocked
    /\ \A r \in Reqs : reqs[r].kind # "comment"

\* C7, as claimed: a connect on a key that has a registered handle answers
\* success and issues neither sendCode nor signIn.
C7_ReconnectAlwaysSucceeds ==
    AnsweredConnectOn({"AwaitingCode", "AwaitingPassword", "Authenticated"})
        => /\ last.req.resp.success
           /\ last.req.issued \cap {"sendCode", "signIn"} = {}

\* A connect request on a key with a registered handle takes a step.
ReconnectStep ==
    \/ \E r \in Reqs : /\ reqs'[r] # reqs[r]
                        /\ reqs'[r].kind = "connect"
                        /\ reqs'[r].found # "none"
    \/ /\ last' # last
       /\ last'.req.kind = "connect"
       /\ last'.req.found # "none"

\* C7, amended: a connect on a key that has a registered handle issues no
\* sendCode and no signIn call and leaves the registry as it is; it calls
\* connect exactly when the handle is disconnected; it answers success with
\* the session, except that it answers 500 when that connect call throws.
C7_ReconnectIdempotent ==
    /\ [](AnsweredConnectOn({"AwaitingCode", "AwaitingPassword", "Authenticated"})
            => /\ last.req.issued = IF last.req.foundConn = "up" THEN {} ELSE {"reconnect"}
               /\ \/ last.req.resp = Resp(200, TRUE, "session")
                  \/ /\ last.req.foundConn # "up"
                     /\ last.req.resp = Resp(500, FALSE, "error"))
    /\ [][ReconnectStep => sessions' = sessions]_vars

\* A connect has found its handle registered and disconnected, has
\* reconnected it and answered success.
C7_Witness ==
    /\ AnsweredConnectOn({"AwaitingCode", "AwaitingPassword", "Authenticated"})
    /\ last.req.foundConn = "down"
    /\ last.req.issued = {"reconnect"}
    /\ last.req.resp = Resp(200, TRUE, "session")
    /\ Connected(MapGet(sessions, last.req.key))

\* The ids of the entries of a channel list.
IdsOf(channels) == {channels[i].id : i \in 1..Len(channels)}

NoDuplicateIds(channels) ==
    \A i, j \in 1..Len(channels) : i # j => channels[i].id # channels[j].id

\* A search has been answered with its channel list.
SearchAnswered == last.req.kind = "search" /\ last.req.resp = Resp(200, TRUE, "channels")

\* C8: the channel list of one /api/search-channels call, while it is built
\* and when it is returned, holds no two entries with the same channel id.
C8_NoDuplicateChannels ==
    /\ \A r \in Reqs : NoDuplicateIds(srch[r].allChannels)
    /\ NoDuplicateIds(last.search.allChannels)

\* A search has returned two channels after passing over a channel that a
\* search result held again.
C8_Witness ==
    /\ SearchAnswered
    /\ last.search.dedups
    /\ Len(last.search.allChannels) = 2

\* A metadata answer that C9 counts for the bounds [min, max]:
\* min <= subscribers <= max, and comments enabled (flags absent, or present
\* without noComments).
Eligible(f, min, max) ==
    /\ min <= f.subscribers
    /\ f.subscribers <= max
    /\ f.flags \in {"absent", "comments"}

\* C9: the channel list a search returns is exactly the set of the broadcast
\* channels found by its keyword searches for which a metadata fetch answered
\* with min <= subscribers <= max and comments enabled, each with the
\* subscriber count of that answer; it is empty when min > max.
C9_ExactlyTheEligibleChannels ==
    SearchAnswered =>
        LET s == last.search
            eligible == {f \in s.fetched : Eligible(f, s.min, s.max)}
        IN  /\ IdsOf(s.allChannels) = {ToString(f.id) : f \in eligible}
            /\ \A f \in s.fetched : f.id \in s.chatsFound
            /\ \A i \in 1..Len(s.allChannels) :
                    \E f \in eligible : /\ ToString(f.id) = s.allChannels[i].id
                                        /\ f.subscribers = s.allChannels[i].subscribers
            /\ (s.min > s.max => s.allChannels = <<>>)

\* A search has returned a channel with exactly min subscribers, having
\* rejected answers with min-1 and with max+1 subscribers and one with
\* comments disabled.
C9_Witness ==
    /\ SearchAnswered
    /\ LET s == last.search
       IN  /\ \E i \in 1..Len(s.allChannels) : s.allChannels[i].subscribers = s.min
           /\ \E f \in s.fetched : f.subscribers = s.min - 1
           /\ \E f \in s.fetched : f.subscribers = s.max + 1
           /\ \E f \in s.fetched : f.flags = "noComments" /\ f.subscribers = s.max

\* A subscribe has been answered with its results.
SubscribeAnswered == last.req.kind = "subscribe" /\ last.req.resp = Resp(200, TRUE, "results")

\* C10: a subscribe with N links of which K failed, at getEntity or at the
\* join, answers N results in the order of the links, one per link, with
\* joined = N-K and failed = K.
C10_OneResultPerLink ==
    SubscribeAnswered =>
        LET u == last.sub
            N == Len(u.links)
            K == u.failures
        IN  /\ Len(u.results) = N
            /\ \A i \in 1..N : u.results[i].channel = u.links[i]
            /\ Cardinality({i \in 1..N : ~u.results[i].success}) = K
            /\ u.joined = N - K
            /\ u.failed = K

\* A subscribe has been answered whose first link failed and whose last
\* link was joined.
C10_Witness ==
    /\ SubscribeAnswered
    /\ LET u == last.sub
       IN  /\ Len(u.links) >= 2
           /\ ~u.results[1].success
           /\ u.results[Len(u.links)].success
           /\ u.failures >= 1

\* A request of one of the kinds has been answered in this step.
AnswersNow(kinds) == last' # last /\ last'.req.kind \in kinds /\ last'.req.resp.status # 0

GatedKinds == {"search", "subscribe", "comment"}

\* C11: a /api/disconnect that answers success leaves the client it found
\* disconnected and the registry without an entry for the key; a search,
\* subscribe or comment request that finds no entry for its key answers 401
\* and makes no protocol call; a disconnect that finds no entry answers
\* success, calls nothing and leaves the registry as it is.
C11_DisconnectRemovesSession ==
    /\ [][(AnswersNow({"disconnect"}) /\ last'.req.resp.success)
            => /\ ~HasKey(sessions', last'.req.key)
               /\ \A r \in Reqs :
                    (reqs[r].pc = "disconnect" /\ reqs'[r] = NoReq)
                        => clients'[reqs[r].client].conn = "down"
               /\ last'.req.found = "none"
                    => (sessions' = sessions /\ last'.req.issued = {})]_vars
    /\ [][(AnswersNow(GatedKinds) /\ last'.req.found = "none")
            => (last'.req.resp.status \in {400, 401} /\ last'.req.issued = {})]_vars
    /\ [](\A r \in Reqs : reqs[r].kind \in GatedKinds => reqs[r].found # "none")

\* After a disconnect of the session has succeeded, a search for its key has
\* been answered 401.
C11_Witness ==
    /\ last.req.kind = "search"
    /\ last.req.key = sessionKey("79001", "11")
    /\ last.req.resp = Resp(401, FALSE, "notConnected")
    /\ last.req.found = "none"
    /\ clients[1].conn = "down"
    /\ sessions = <<>>

\* C12: between two consecutive JoinChannel calls of one /api/subscribe
\* request the pacing delay of line 289 runs, whether the first of them
\* succeeded or failed: no join is attempted while an earlier one of the
\* request has not been followed by the delay.
C12_PacedAfterEachJoin ==
    /\ \A r \in Reqs : subs[r].unpaced <= 1
    /\ last.sub.unpaced <= 1

\* C13: a commenter loop that is running when /api/stop-commenting is
\* processed exits at its next test of the flag, whatever is processed in
\* between: no loop goes on past that test.
C13_StopReachesEveryLoop == \A l \in Loops : loops[l].stop # "missed"

\* C14: a signInUser call that fails is answered by kind: PHONE_CODE_INVALID
\* with 400 and no success flag, SESSION_PASSWORD_NEEDED with success and
\* needsPassword, any other failure with 500; the call is made once, the
\* request ends with that answer, and the request's client is not put in the
\* registry.
C14_SignInFailureByKind ==
    /\ [](/\ \A r \in Reqs : reqs[r].signIn = "none"
          /\ last.req.signIn = "PHONE_CODE_INVALID"
                => last.req.resp = Resp(400, FALSE, "invalidCode")
          /\ last.req.signIn = "SESSION_PASSWORD_NEEDED"
                => last.req.resp = Resp(200, TRUE, "needsPassword")
          /\ last.req.signIn = "OTHER" => last.req.resp = Resp(500, FALSE, "error"))
    /\ [][\A r \in Reqs :
            (reqs[r].pc = "signIn" /\ reqs'[r] # reqs[r] /\ last'.req.signIn # "ok")
                => /\ reqs'[r] = NoReq
                   /\ last'.req.signIn \in SignInOutcomes
                   /\ sessions' = sessions
                   /\ \A i \in 1..Len(sessions') : sessions'[i].client # reqs[r].client]_vars

\* A connect with a code has been answered needsPassword after its one
\* signInUser call, and its key is not in the registry.
C14_Witness ==
    /\ last.req.kind = "connect"
    /\ last.req.signIn = "SESSION_PASSWORD_NEEDED"
    /\ last.req.issued = {"connect", "signIn"}
    /\ last.req.resp = Resp(200, TRUE, "needsPassword")
    /\ ~HasKey(sessions, last.req.key)

\* The ids GetFullChannel has been called for.
CalledIds(calls) == {calls[i].id : i \in 1..Len(calls)}

\* C15: a search that has passed the connected test answers success with its
\* channel list whatever calls have failed: a contacts.Search call has been
\* made for every keyword, GetFullChannel has been called for every broadcast
\* channel the searches found, and the list holds the channels whose metadata
\* answer met the bounds and the comments test.
C15_PartialFailureTolerant ==
    (last.req.kind = "search" /\ "search" \in last.req.issued)
        => LET s == last.search
           IN  /\ last.req.resp = Resp(200, TRUE, "channels")
               /\ s.searches = s.asked
               /\ s.chatsFound \subseteq CalledIds(s.calls)
               /\ IdsOf(s.allChannels) =
                    {ToString(f.id) : f \in {g \in s.fetched : Eligible(g, s.min, s.max)}}

\* A search of two keywords has been answered after a contacts.Search call
\* and a GetFullChannel call have failed, with a channel in its list.
C15_Witness ==
    /\ SearchAnswered
    /\ last.search.failed = {"search", "fetch"}
    /\ last.search.asked = 2
    /\ last.search.allChannels # <<>>

\* C16: within one search GetFullChannel is called at most once for a channel
\* id, also for a channel that was rejected by the bounds or the comments
\* test earlier in the search.
C16_OneFetchPerChannel ==
    /\ \A r \in Reqs : \A i \in 1..Len(srch[r].calls) : srch[r].calls[i].n <= 1
    /\ \A i \in 1..Len(last.search.calls) : last.search.calls[i].n <= 1

\* C17: commentingActive changes only in a /api/comment request that has
\* passed the connected test, which sets it, and in /api/stop-commenting,
\* which clears it; every other request, a /api/comment answered 401, the
\* steps of the loops and the shutdown leave it as it is.
C17_FlagOnlyByStartAndStop ==
    [][commentingActive' # commentingActive
        => \/ /\ commentingActive'
              /\ \/ /\ last' # last
                    /\ last'.req.kind = "comment"
                    /\ last'.req.resp = Resp(200, TRUE, "commentingStarted")
                    /\ last'.req.foundConn = "up"
                 \/ \E r \in Reqs : /\ reqs'[r] # reqs[r]
                                    /\ reqs'[r].kind = "comment"
                                    /\ reqs'[r].foundConn = "up"
           \/ /\ ~commentingActive'
              /\ last'.req.kind = "stop"]_vars

\* With the flag set, a /api/comment request has been answered 401 and the
\* flag is still set.
C17_Witness ==
    /\ commentingActive
    /\ last.req.kind = "comment"
    /\ last.req.resp = Resp(401, FALSE, "notConnected")

\* C18, as claimed: when the SIGTERM handler exits it has called disconnect
\* on every client that was registered when SIGTERM arrived.
C18_EveryHandleAtShutdown ==
    shutdown.pc = "exited" => shutdown.atStart \subseteq shutdown.attempted

\* C18, amended: when the SIGTERM handler exits it has called disconnect, one
\* call at a time, on every client that was registered when SIGTERM arrived
\* and is still registered, whether or not some of the calls have thrown; the
\* clients it has not called are those a request has taken out of the
\* registry, or replaced in it, before the iteration reached them. When a
\* call returns or throws, the handler calls disconnect on the client of the
\* next entry of the Map, and exits if there is none.
C18_EveryHandleStillRegistered ==
    /\ [](/\ shutdown.pc = "exited" =>
                \A c \in shutdown.atStart : c \in shutdown.attempted \/ ~Registered(c)
          /\ shutdown.pc = "disconnect" => shutdown.client \in shutdown.attempted
          /\ shutdown.pc = "idle" => shutdown.attempted = {})
    /\ [][(shutdown.pc = "disconnect" /\ shutdown'.idx # shutdown.idx /\ sessions' = sessions)
            => IF shutdown.idx < Len(sessions)
               THEN /\ shutdown'.pc = "disconnect"
                    /\ shutdown'.client = sessions[shutdown.idx + 1].client
               ELSE shutdown'.pc = "exited"]_vars

\* The handler has exited after calling disconnect on two registered clients,
\* one of the calls having thrown.
C18_Witness ==
    /\ shutdown.pc = "exited"
    /\ shutdown.failed
    /\ Cardinality(shutdown.atStart) = 2
    /\ shutdown.atStart = shutdown.attempted

\* C19: every client whose connection is open is held by the registry or by
\* the /api/connect request that is still working on it: once the request has
\* answered, a client it has connected is registered or has been
\* disconnected.
C19_NoLeakedConnection ==
    \A c \in Clients :
        clients[c].conn = "up"
            => \/ Registered(c)
               \/ \E r \in Reqs : reqs[r].kind = "connect" /\ reqs[r].client = c

\* C20: no search, subscribe or commenter loop makes a protocol call
\* (contacts.Search, GetFullChannel, getEntity, JoinChannel, getMessages,
\* sendMessage) on a client that /api/disconnect has disconnected, also when
\* it was started with the client before the disconnect.
C20_NoCallAfterDisconnect ==
    /\ \A r \in Reqs : ~reqs[r].onDown
    /\ ~last.req.onDown
    /\ \A l \in Loops : ~loops[l].onDown

====
